---------------------------- MODULE Spec2Model ----------------------------
(***************************************************************************)
(* A model of the imguizmo crate (src/imguizmo/src/lib.rs): the Gizmo      *)
(* frame token, the free wrapper functions over the native ImGuizmo        *)
(* engine, the Builder facade, the viewport Rect and the projection        *)
(* helpers frustum / perspective / orthographic.                           *)
(*                                                                         *)
(* f32 values are modelled in fixed point (Scale units per 1.0) together   *)
(* with the IEEE specials +inf, -inf and NaN; signed zero is not           *)
(* distinguished.  The native engine behind the ImGuizmo_* symbols is not  *)
(* part of the crate's sources; its state machine (Engine* definitions)    *)
(* follows the engine contract of spec.md, sections 4.3 to 4.6.            *)
(***************************************************************************)
EXTENDS Integers, Sequences, FiniteSets, TLC

VARIABLES
    uiOpen,      \* an imgui frame (a Ui value) is open            main.rs:139
    display,     \* ui.io().display_size of the open frame, <<w, h>> in pixels
    window,      \* position and size of the current UI window, pixels
    gizmo,       \* a Gizmo value borrowed from the open Ui exists  lib.rs:64
    begins,      \* begin_frame calls made in the open imgui frame
    pointer,     \* the pointer input the engine reads this frame
    engine,      \* the native engine's process-wide state
    models,      \* the host's model matrices, by identity
    view,        \* the host's view matrix
    builder,     \* <<>> or <<b>>: the Builder value under construction
    lastCall,    \* the most recent call of the public API and its outcome
    math         \* input and result of a pure helper under check

vars == <<uiOpen, display, window, gizmo, begins, pointer, engine, models,
          view, builder, lastCall, math>>

---------------------------------------------------------------------------
(* f32 arithmetic in fixed point.                                          *)

Scale == 100

FIN(v) == [k |-> "fin", v |-> v]
INF(s) == [k |-> "inf", v |-> s]
NAN == [k |-> "nan", v |-> 0]

\* an f32 literal given in hundredths: Lit(10) is 0.1
Lit(hundredths) == FIN(hundredths)
\* a whole number as f32
Whole(n) == FIN(n * Scale)

IsFinite(a) == a.k = "fin"
IsNaN(a) == a.k = "nan"

Sgn(n) == IF n < 0 THEN -1 ELSE 1
Abs(n) == IF n < 0 THEN -n ELSE n
\* integer quotient rounded toward zero
Quot(a, b) == Sgn(a) * Sgn(b) * (Abs(a) \div Abs(b))

FNeg(a) ==
    CASE a.k = "fin" -> FIN(-a.v)
      [] a.k = "inf" -> INF(-a.v)
      [] OTHER -> NAN

FAdd(a, b) ==
    CASE IsNaN(a) \/ IsNaN(b) -> NAN
      [] a.k = "inf" /\ b.k = "inf" -> IF a.v = b.v THEN a ELSE NAN
      [] a.k = "inf" -> a
      [] b.k = "inf" -> b
      [] OTHER -> FIN(a.v + b.v)

FSub(a, b) == FAdd(a, FNeg(b))

FMul(a, b) ==
    CASE IsNaN(a) \/ IsNaN(b) -> NAN
      [] a.k = "inf" /\ b.k = "inf" -> INF(a.v * b.v)
      [] a.k = "inf" -> IF b.v = 0 THEN NAN ELSE INF(a.v * Sgn(b.v))
      [] b.k = "inf" -> IF a.v = 0 THEN NAN ELSE INF(b.v * Sgn(a.v))
      [] OTHER -> FIN(Quot(a.v * b.v, Scale))

FDiv(a, b) ==
    CASE IsNaN(a) \/ IsNaN(b) -> NAN
      [] a.k = "inf" /\ b.k = "inf" -> NAN
      [] a.k = "inf" -> INF(a.v * Sgn(b.v))
      [] b.k = "inf" -> FIN(0)
      [] b.v = 0 -> IF a.v = 0 THEN NAN ELSE INF(Sgn(a.v))
      [] OTHER -> FIN(Quot(a.v * Scale, b.v))

\* std::f32::consts::PI
PI == 314

\* f32::tan on the angles (in radians) the model's fovy inputs produce
Tan(a) ==
    IF ~IsFinite(a) THEN NAN
    ELSE CASE a.v = 0 -> FIN(0)
           [] a.v = 26 -> FIN(27)        \* 15 degrees
           [] a.v = 39 -> FIN(41)        \* 22.5 degrees
           [] a.v = 52 -> FIN(58)        \* 30 degrees
           [] a.v = 78 -> FIN(100)       \* 45 degrees
           [] a.v = 104 -> FIN(173)      \* 60 degrees
           [] OTHER -> NAN

---------------------------------------------------------------------------
(* Projection helpers, lib.rs:498-576.  A Matrix4 is a sequence of four    *)
(* rows of four f32 values, m[i][j] being m[i+1][j+1] here.                *)

Zero == FIN(0)
One == Whole(1)
Two == Whole(2)

Matrix4Default == [i \in 1..4 |-> [j \in 1..4 |-> Zero]]

frustum(left, right, bottom, top, znear, zfar) ==
    LET t1 == FMul(Two, znear)
        t2 == FSub(right, left)
        t3 == FSub(top, bottom)
        t4 == FSub(zfar, znear)
    IN  << << FDiv(t1, t2), Zero, Zero, Zero >>,
           << Zero, FDiv(t1, t3), Zero, Zero >>,
           << FDiv(FAdd(right, left), t2),
              FDiv(FAdd(top, bottom), t3),
              FDiv(FSub(FNeg(zfar), znear), t4),
              FNeg(One) >>,
           << Zero, Zero, FDiv(FMul(FNeg(t1), zfar), t4), Zero >> >>

\* the angle perspective hands to tan
perspectiveAngle(fovy_degrees) ==
    FDiv(FMul(fovy_degrees, Lit(PI)), Whole(180))

perspectiveYmax(fovy_degrees, znear) ==
    FMul(znear, Tan(perspectiveAngle(fovy_degrees)))

perspectiveXmax(fovy_degrees, aspect_ratio, znear) ==
    FMul(perspectiveYmax(fovy_degrees, znear), aspect_ratio)

perspective(fovy_degrees, aspect_ratio, znear, zfar) ==
    LET ymax == perspectiveYmax(fovy_degrees, znear)
        xmax == perspectiveXmax(fovy_degrees, aspect_ratio, znear)
    IN  frustum(FNeg(xmax), xmax, FNeg(ymax), ymax, znear, zfar)

orthographic(left, right, bottom, top, znear, zfar) ==
    << << FDiv(Two, FSub(right, left)), Zero, Zero, Zero >>,
       << Zero, FDiv(Two, FSub(top, bottom)), Zero, Zero >>,
       << Zero, Zero, FDiv(One, FSub(zfar, znear)), Zero >>,
       << FDiv(FAdd(left, right), FSub(left, right)),
          FDiv(FAdd(top, bottom), FSub(bottom, top)),
          FDiv(znear, FSub(znear, zfar)),
          One >> >>

---------------------------------------------------------------------------
(* Types of the public API, lib.rs:27-61, 339-372.                         *)

Operation == {"Translate", "Rotate", "Scale", "Bounds"}
Mode == {"Local", "World"}

\* `operation as i32` / `mode as i32`: the discriminants are the ffi constants
OperationAsI32(op) ==
    CASE op = "Translate" -> "ImGuizmo_OPERATION_TRANSLATE"
      [] op = "Rotate" -> "ImGuizmo_OPERATION_ROTATE"
      [] op = "Scale" -> "ImGuizmo_OPERATION_SCALE"
      [] op = "Bounds" -> "ImGuizmo_OPERATION_BOUNDS"

ModeAsI32(mode) ==
    CASE mode = "Local" -> "ImGuizmo_MODE_LOCAL"
      [] mode = "World" -> "ImGuizmo_MODE_WORLD"

Perspective(fovy) == [kind |-> "Perspective", param |-> fovy]
Orthographic(view_width) == [kind |-> "Orthographic", param |-> view_width]

is_orthographic(proj) ==
    CASE proj.kind = "Perspective" -> FALSE
      [] proj.kind = "Orthographic" -> TRUE

Rect(x, y, width, height) ==
    [x |-> x, y |-> y, width |-> width, height |-> height]

\* ui.window_pos() and ui.window_size() of the current window
Rect_from_window(win) ==
    Rect(Whole(win.x), Whole(win.y), Whole(win.w), Whole(win.h))

\* ui.io().display_size
Rect_from_display(disp) ==
    Rect(Zero, Zero, Whole(disp[1]), Whole(disp[2]))

\* Option<&mut T> is <<>> (None) or <<address>> (Some); a raw pointer is an
\* address or Null
Null == "null"
None == <<>>
Some(addr) == <<addr>>

\* Option::map_or_else(ptr::null_mut, |v| v.as_mut_ptr())
AsMutPtrOrNull(opt) == IF opt = None THEN Null ELSE opt[1]

---------------------------------------------------------------------------
(* The native engine behind the ImGuizmo_* symbols (spec.md 4.3 - 4.6).    *)
(* Its state is process-wide: the sticky enabled flag, the per-frame       *)
(* configuration (orthographic flag, viewport rect, draw-list target) and  *)
(* the drag state, here the set of captured handles.                       *)

ModelIds == {"cube", "grid"}
Handles == {"axisX"}
NoTarget == <<"none", "none">>
ViewCube == <<"view", "cube">>
HandleTargets == ModelIds \X Handles
OverTargets == {NoTarget, ViewCube} \union HandleTargets

\* bound on the abstract values standing for a model / view matrix
MaxMatrix == 1
MatrixValues == 0..MaxMatrix
\* the matrix a drag step or an orbit step produces from matrix v
Dragged(v) == (v + 1) % (MaxMatrix + 1)

EngineInit ==
    [enabled |-> TRUE, ortho |-> FALSE, rect |-> None,
     drawList |-> "overlay", capture |-> {}, viewDrag |-> FALSE]

ImGuizmo_BeginFrame(e) ==
    [e EXCEPT !.ortho = FALSE, !.rect = None, !.drawList = "overlay"]

ImGuizmo_SetDrawlist(e) == [e EXCEPT !.drawList = "window"]

ImGuizmo_IsOver(e, p) == p.over \in HandleTargets

ImGuizmo_IsUsing(e) == e.capture # {}

ImGuizmo_Enable(e, b) == [e EXCEPT !.enabled = b]

ImGuizmo_SetRect(e, x, y, width, height) ==
    [e EXCEPT !.rect = Some(Rect(x, y, width, height))]

ImGuizmo_SetOrthographic(e, b) == [e EXCEPT !.ortho = b]

\* a slip: a press begins a capture whether or not one exists
CaptureBeginsAnyTime(e, p, m) ==
    /\ e.enabled
    /\ p.pressed
    /\ p.over \in HandleTargets
    /\ p.over[1] = m

\* step 4 of manipulate: a press over a handle of this gizmo begins a capture
\* when none exists and the gizmo is enabled
CaptureBegins(e, p, m) ==
    /\ e.enabled
    /\ e.capture = {}
    /\ p.pressed
    /\ p.over \in HandleTargets
    /\ p.over[1] = m

\* The outcome of one manipulate call on model m holding matrix v:
\* the engine state after it, the matrix after it, and the engine's result.
ImGuizmo_Manipulate(e, p, m, v) ==
    CASE e.capture # {} /\ ~p.down ->
            \* step 7: release ends the drag
            [engine |-> [e EXCEPT !.capture = {}], model |-> v,
             modified |-> FALSE]
      [] e.capture # {} /\ p.down /\ e.enabled /\ p.moved ->
            \* step 5: the captured handle follows the pointer
            [engine |-> e, model |-> Dragged(v), modified |-> TRUE]
      [] CaptureBegins(e, p, m) ->
            [engine |-> [e EXCEPT !.capture = e.capture \union {p.over}],
             model |-> v,
             modified |-> FALSE]
      [] OTHER ->
            [engine |-> e, model |-> v, modified |-> FALSE]

\* The view manipulator: a press on the view cube snaps the view and starts
\* an orbit drag; motion while held orbits; release ends it.
SnappedView == 0
ImGuizmo_ViewManipulate(e, p, v) ==
    CASE e.viewDrag /\ ~p.down ->
            [engine |-> [e EXCEPT !.viewDrag = FALSE], view |-> v]
      [] e.viewDrag /\ p.down /\ p.moved ->
            [engine |-> e, view |-> Dragged(v)]
      [] ~e.viewDrag /\ p.pressed /\ p.over = ViewCube ->
            [engine |-> [e EXCEPT !.viewDrag = TRUE], view |-> SnappedView]
      [] OTHER ->
            [engine |-> e, view |-> v]

\* DrawCubes / DrawGrid: rendering only
ImGuizmo_DrawCubes(e) == e
ImGuizmo_DrawGrid(e) == e

---------------------------------------------------------------------------
(* The crate's wrappers as functions of the engine state, lib.rs:203-337.  *)

\* a slip: begin_frame that hands out the Gizmo without telling the engine
begin_frameSkipsEngine(e) == e

\* a slip: begin_frame switching the gizmo back on
begin_frameEnables(e) == ImGuizmo_Enable(ImGuizmo_BeginFrame(e), TRUE)

begin_frame(e) == ImGuizmo_BeginFrame(e)
set_draw_list(e) == ImGuizmo_SetDrawlist(e)
is_over(e, p) == ImGuizmo_IsOver(e, p)
is_using(e) == ImGuizmo_IsUsing(e)
enable(e, enabled) == ImGuizmo_Enable(e, enabled)
set_rect(e, x, y, width, height) == ImGuizmo_SetRect(e, x, y, width, height)
set_orthographic(e, is_ortho) == ImGuizmo_SetOrthographic(e, is_ortho)
set_ortho(e, is_ortho) == ImGuizmo_SetOrthographic(e, is_ortho)
draw_cube(e) == ImGuizmo_DrawCubes(e)
draw_grid(e) == ImGuizmo_DrawGrid(e)

\* a slip: snap and bounds_snap, both Option<&mut Vector3>, change places
ManipulatePointersSwapped(delta_matrix, snap, local_bounds, bounds_snap) ==
    [deltaMatrix |-> AsMutPtrOrNull(delta_matrix),
     snap |-> AsMutPtrOrNull(bounds_snap),
     localBounds |-> AsMutPtrOrNull(local_bounds),
     boundsSnap |-> AsMutPtrOrNull(snap)]

\* what ImGuizmo_Manipulate receives for the four optional parameters
ManipulatePointers(delta_matrix, snap, local_bounds, bounds_snap) ==
    [deltaMatrix |-> AsMutPtrOrNull(delta_matrix),
     snap |-> AsMutPtrOrNull(snap),
     localBounds |-> AsMutPtrOrNull(local_bounds),
     boundsSnap |-> AsMutPtrOrNull(bounds_snap)]

\* what a wrapper hands back to its caller for the engine's bool result
Unit == "unit"
BoolStr(b) == IF b THEN "true" ELSE "false"
ManipulateReturn(modified) == Unit

\* fn manipulate: the engine call it makes and what comes of it
manipulate(e, p, projection, operation, mode, m, v, opts) ==
    LET r == ImGuizmo_Manipulate(e, p, m, v)
    IN  [engine |-> r.engine,
         model |-> r.model,
         modified |-> r.modified,
         ret |-> ManipulateReturn(r.modified),
         got |-> [fn |-> "ImGuizmo_Manipulate",
                  projection |-> projection,
                  operation |-> OperationAsI32(operation),
                  mode |-> ModeAsI32(mode),
                  model |-> m,
                  ptrs |-> ManipulatePointers(opts.delta_matrix, opts.snap,
                                 opts.local_bounds, opts.bounds_snap),
                  rect |-> e.rect,
                  ortho |-> e.ortho,
                  drawList |-> e.drawList,
                  captured |-> e.capture # {}]]

\* a slip: the display rect whatever `windowed` says
prepare_rectDisplayOnly(windowed, disp, win) == Rect_from_display(disp)

\* Gizmo::prepare_projection, lib.rs:170-200
prepare_rect(windowed, disp, win) ==
    IF windowed THEN Rect_from_window(win) ELSE Rect_from_display(disp)

prepare_matrix(proj, rect) ==
    CASE proj.kind = "Perspective" ->
            LET aspect_ratio == FDiv(rect.width, rect.height)
            IN  perspective(proj.param, aspect_ratio, Lit(10), Whole(100))
      [] proj.kind = "Orthographic" ->
            LET view_width == proj.param
                view_height == FDiv(FMul(view_width, rect.height), rect.width)
            IN  orthographic(FNeg(view_width), view_width,
                             FNeg(view_height), view_height,
                             FNeg(view_width), view_width)

\* the six extents a projection helper is called with
Extents(left, right, bottom, top, znear, zfar) ==
    [left |-> left, right |-> right, bottom |-> bottom, top |-> top,
     znear |-> znear, zfar |-> zfar]

\* what perspective hands to frustum, lib.rs:539-541
perspectiveExtents(fovy_degrees, aspect_ratio, znear, zfar) ==
    LET ymax == perspectiveYmax(fovy_degrees, znear)
        xmax == perspectiveXmax(fovy_degrees, aspect_ratio, znear)
    IN  Extents(FNeg(xmax), xmax, FNeg(ymax), ymax, znear, zfar)

\* what prepare_projection hands to frustum (through perspective) or to
\* orthographic, lib.rs:177-195
prepare_extents(proj, rect) ==
    CASE proj.kind = "Perspective" ->
            LET aspect_ratio == FDiv(rect.width, rect.height)
            IN  perspectiveExtents(proj.param, aspect_ratio, Lit(10),
                                   Whole(100))
      [] proj.kind = "Orthographic" ->
            LET view_width == proj.param
                view_height == FDiv(FMul(view_width, rect.height), rect.width)
            IN  Extents(FNeg(view_width), view_width,
                        FNeg(view_height), view_height,
                        FNeg(view_width), view_width)

\* a slip: the orthographic flag left as the last call set it
prepare_projectionKeepsFlag(e, windowed, proj, disp, win) ==
    LET e1 == IF windowed THEN set_draw_list(e) ELSE e
        rect == prepare_rect(windowed, disp, win)
        e3 == set_rect(e1, rect.x, rect.y, rect.width, rect.height)
    IN  [engine |-> e3, projection |-> prepare_matrix(proj, rect)]

prepare_projection(e, windowed, proj, disp, win) ==
    LET e1 == IF windowed THEN set_draw_list(e) ELSE e
        rect == prepare_rect(windowed, disp, win)
        e2 == set_orthographic(e1, is_orthographic(proj))
        e3 == set_rect(e2, rect.x, rect.y, rect.width, rect.height)
    IN  [engine |-> e3, projection |-> prepare_matrix(proj, rect)]

\* a slip: another default operation
Builder_newTranslate(m) ==
    [model |-> m,
     projection |-> Perspective(Whole(45)),
     operation |-> "Translate",
     windowed |-> FALSE,
     mode |-> "Local",
     delta_matrix |-> None,
     snap |-> None,
     local_bounds |-> None,
     bounds_snap |-> None]

\* Builder::new, lib.rs:390-408
Builder_new(m) ==
    [model |-> m,
     projection |-> Perspective(Whole(45)),
     operation |-> "Rotate",
     windowed |-> FALSE,
     mode |-> "Local",
     delta_matrix |-> None,
     snap |-> None,
     local_bounds |-> None,
     bounds_snap |-> None]

BuilderOptions(b) ==
    [delta_matrix |-> b.delta_matrix, snap |-> b.snap,
     local_bounds |-> b.local_bounds, bounds_snap |-> b.bounds_snap]


---------------------------------------------------------------------------
(* The host: one imgui frame after another (example/src/main.rs:131-234).  *)

DisplaySizes == { <<1280, 720>> }
WindowRects == { [x |-> 100, y |-> 50, w |-> 400, h |-> 300] }

\* the host's own projection matrices for the Gizmo path (main.rs:144-158)
HostProjections ==
    { perspective(Whole(60), FDiv(Whole(1280), Whole(720)), Lit(10),
                  Whole(100)) }

\* the buffers the host lends for the optional parameters (main.rs:86-88)
NoOptions ==
    [delta_matrix |-> None, snap |-> None, local_bounds |-> None,
     bounds_snap |-> None]
AllOptions ==
    [delta_matrix : {None, Some("delta_matrix")},
     snap : {None, Some("snap")},
     local_bounds : {None, Some("bounds")},
     bounds_snap : {None, Some("bounds_snap")}]

PointerIdle ==
    [down |-> FALSE, pressed |-> FALSE, moved |-> FALSE, over |-> NoTarget]

\* the engine call made by the most recent call of the public API
Call(op, hadCtx, ret, given, got, modified) ==
    [op |-> op, hadCtx |-> hadCtx, ret |-> ret, given |-> given,
     got |-> got, modified |-> modified]
NoCall == Call("none", FALSE, Unit, None, None, FALSE)
\* a call that hands no arguments on and changes no matrix
Plain(op, ret) == Call(op, gizmo, ret, None, None, FALSE)

NoMath == [fn |-> "none", args |-> <<>>, out |-> None]

BaseInit ==
    /\ uiOpen = FALSE
    /\ display \in DisplaySizes
    /\ window \in WindowRects
    /\ gizmo = FALSE
    /\ begins = 0
    /\ pointer = PointerIdle
    /\ engine = EngineInit
    /\ models = [m \in ModelIds |-> 0]
    /\ view = 0
    /\ builder = None
    /\ lastCall = NoCall

Init == BaseInit /\ math = NoMath

\* bound on begin_frame calls within one imgui frame
MaxBegins == 2

\* the pointer inputs of a frame: button held or not, pointer moved or not,
\* what the pointer is over
PointerInputs(overs) == [down : BOOLEAN, moved : BOOLEAN, over : overs]
IdleInputs == { [down |-> FALSE, moved |-> FALSE, over |-> NoTarget] }

\* imgui.frame(): a new Ui with this frame's sizes and pointer input
HostNewFrame(inputs) ==
    /\ ~uiOpen
    /\ uiOpen' = TRUE
    /\ display' \in DisplaySizes
    /\ window' \in WindowRects
    /\ \E in \in inputs :
          pointer' = [down |-> in.down, pressed |-> in.down /\ ~pointer.down,
                      moved |-> in.moved, over |-> in.over]
    /\ begins' = 0
    /\ lastCall' = NoCall
    /\ UNCHANGED <<gizmo, engine, models, view, builder, math>>

\* imgui.render(): the Ui ends, and with it every Gizmo and Builder borrowed
\* from it
HostEndFrame ==
    /\ uiOpen
    /\ uiOpen' = FALSE
    /\ gizmo' = FALSE
    /\ builder' = None
    /\ lastCall' = NoCall
    /\ UNCHANGED <<display, window, begins, pointer, engine, models, view,
                   math>>

---------------------------------------------------------------------------
(* The public API.  A method of Gizmo needs a Gizmo (&self); a method of   *)
(* Builder needs the Builder.                                              *)

Gizmo_begin_frame ==
    /\ uiOpen
    /\ begins < MaxBegins
    /\ begins' = begins + 1
    /\ gizmo' = TRUE
    /\ engine' = begin_frame(engine)
    /\ lastCall' = Plain("begin_frame", Unit)
    /\ UNCHANGED <<uiOpen, display, window, pointer, models, view, builder,
                   math>>

\* the calls that only configure or query the engine
Simple(op, e, ret) ==
    /\ engine' = e
    /\ lastCall' = Plain(op, ret)
    /\ UNCHANGED <<uiOpen, display, window, gizmo, begins, pointer, models,
                   view, builder, math>>

Gizmo_set_draw_list ==
    gizmo /\ Simple("set_draw_list", set_draw_list(engine), Unit)

Gizmo_is_over ==
    gizmo /\ Simple("is_over", engine, BoolStr(is_over(engine, pointer)))

Gizmo_is_using ==
    gizmo /\ Simple("is_using", engine, BoolStr(is_using(engine)))

Gizmo_enable(enabled) ==
    /\ gizmo
    /\ engine' = enable(engine, enabled)
    /\ lastCall' = Call("enable", gizmo, Unit, Some([enabled |-> enabled]),
                        None, FALSE)
    /\ UNCHANGED <<uiOpen, display, window, gizmo, begins, pointer, models,
                   view, builder, math>>

Gizmo_set_orthographic(is_ortho) ==
    gizmo /\ Simple("set_orthographic", set_orthographic(engine, is_ortho),
                    Unit)

Gizmo_set_rect(r) ==
    gizmo /\ Simple("set_rect",
                    set_rect(engine, r.x, r.y, r.width, r.height), Unit)

\* pub fn set_ortho: a free function, no Gizmo asked for
SetOrtho(is_ortho) ==
    Simple("set_ortho", set_ortho(engine, is_ortho), Unit)

Gizmo_manipulate(projection, operation, mode, m, opts) ==
    /\ gizmo
    /\ LET r == manipulate(engine, pointer, projection, operation, mode, m,
                           models[m], opts)
       IN  /\ engine' = r.engine
           /\ models' = [models EXCEPT ![m] = r.model]
           /\ lastCall' = Call("manipulate", gizmo, r.ret,
                               Some([path |-> "Gizmo", operation |-> operation,
                                     mode |-> mode, model |-> m,
                                     opts |-> opts]),
                               Some(r.got), r.model # models[m])
    /\ UNCHANGED <<uiOpen, display, window, gizmo, begins, pointer, view,
                   builder, math>>

Gizmo_view_manipulate ==
    /\ gizmo
    /\ LET r == ImGuizmo_ViewManipulate(engine, pointer, view)
       IN  /\ engine' = r.engine
           /\ view' = r.view
    /\ lastCall' = Plain("view_manipulate", Unit)
    /\ UNCHANGED <<uiOpen, display, window, gizmo, begins, pointer, models,
                   builder, math>>

DrawGot(fn, e, projection, m) ==
    [fn |-> fn, projection |-> projection, model |-> m, rect |-> e.rect,
     ortho |-> e.ortho, drawList |-> e.drawList]

Gizmo_draw_cube(projection, m) ==
    /\ gizmo
    /\ engine' = draw_cube(engine)
    /\ lastCall' = Call("draw_cube", gizmo, Unit, None,
                        Some(DrawGot("ImGuizmo_DrawCubes", engine,
                                     projection, m)), FALSE)
    /\ UNCHANGED <<uiOpen, display, window, gizmo, begins, pointer, models,
                   view, builder, math>>

Gizmo_draw_grid(projection, m) ==
    /\ gizmo
    /\ engine' = draw_grid(engine)
    /\ lastCall' = Call("draw_grid", gizmo, Unit, None,
                        Some(DrawGot("ImGuizmo_DrawGrid", engine,
                                     projection, m)), FALSE)
    /\ UNCHANGED <<uiOpen, display, window, gizmo, begins, pointer, models,
                   view, builder, math>>


---------------------------------------------------------------------------
(* The Builder facade, lib.rs:374-496.                                     *)

\* Gizmo::builder -> Builder::new
Gizmo_builder(m) ==
    /\ gizmo
    /\ builder' = Some(Builder_new(m))
    /\ lastCall' = Plain("builder", "Builder")
    /\ UNCHANGED <<uiOpen, display, window, gizmo, begins, pointer, engine,
                   models, view, math>>

\* a with_* setter: takes the Builder by value and hands back b
Builder_with(b) ==
    /\ builder # None
    /\ builder' = Some(b)
    /\ lastCall' = Plain("with", "Builder")
    /\ UNCHANGED <<uiOpen, display, window, gizmo, begins, pointer, engine,
                   models, view, math>>

with_projection(b, projection) == [b EXCEPT !.projection = projection]
with_operation(b, operation) == [b EXCEPT !.operation = operation]
with_windowed(b, windowed) == [b EXCEPT !.windowed = windowed]
with_mode(b, mode) == [b EXCEPT !.mode = mode]
with_delta_matrix(b, delta_matrix) == [b EXCEPT !.delta_matrix = delta_matrix]
\* a slip: the snap values stored in the neighbouring field of the same type
with_snapIntoBoundsSnap(b, snap) == [b EXCEPT !.bounds_snap = snap]
with_snap(b, snap) == [b EXCEPT !.snap = snap]
with_local_bounds(b, local_bounds) == [b EXCEPT !.local_bounds = local_bounds]
with_bounds_snap(b, bounds_snap) == [b EXCEPT !.bounds_snap = bounds_snap]

Builder_with_projection(projection) ==
    builder # None /\ Builder_with(with_projection(builder[1], projection))
Builder_with_operation(operation) ==
    builder # None /\ Builder_with(with_operation(builder[1], operation))
Builder_with_windowed(windowed) ==
    builder # None /\ Builder_with(with_windowed(builder[1], windowed))
Builder_with_mode(mode) ==
    builder # None /\ Builder_with(with_mode(builder[1], mode))
Builder_with_delta_matrix(delta_matrix) ==
    builder # None /\ Builder_with(with_delta_matrix(builder[1], delta_matrix))
Builder_with_snap(snap) ==
    builder # None /\ Builder_with(with_snap(builder[1], snap))
Builder_with_local_bounds(local_bounds) ==
    builder # None /\ Builder_with(with_local_bounds(builder[1], local_bounds))
Builder_with_bounds_snap(bounds_snap) ==
    builder # None /\ Builder_with(with_bounds_snap(builder[1], bounds_snap))

\* Builder::manipulate ends in `manipulate(...);` and has no return type
Builder_manipulateReturn(inner) == Unit

\* Builder::manipulate(self): the Builder is consumed
Builder_manipulate ==
    /\ builder # None
    /\ LET b == builder[1]
           pp == prepare_projection(engine, b.windowed, b.projection,
                                    display, window)
           r == manipulate(pp.engine, pointer, pp.projection, b.operation,
                           b.mode, b.model, models[b.model],
                           BuilderOptions(b))
       IN  /\ engine' = r.engine
           /\ models' = [models EXCEPT ![b.model] = r.model]
           /\ lastCall' = Call("manipulate", gizmo,
                               Builder_manipulateReturn(r.ret),
                               Some([path |-> "Builder", b |-> b]),
                               Some(r.got), r.model # models[b.model])
    /\ builder' = None
    /\ UNCHANGED <<uiOpen, display, window, gizmo, begins, pointer, view,
                   math>>

\* a slip: a rebuilt Builder handed back in place of self
Builder_drawReturnRebuilt(b) == Builder_new(b.model)

\* draw_grid / draw_cube end in `self`
Builder_drawReturn(b) == b

Builder_draw(op, fn) ==
    /\ builder # None
    /\ LET b == builder[1]
           pp == prepare_projection(engine, b.windowed, b.projection,
                                    display, window)
       IN  /\ engine' = IF op = "draw_grid" THEN draw_grid(pp.engine)
                                            ELSE draw_cube(pp.engine)
           /\ builder' = Some(Builder_drawReturn(b))
           /\ lastCall' = Call(op, gizmo, "Builder",
                               Some([path |-> "Builder", b |-> b]),
                               Some(DrawGot(fn, pp.engine, pp.projection,
                                            b.model)), FALSE)
    /\ UNCHANGED <<uiOpen, display, window, gizmo, begins, pointer, models,
                   view, math>>

Builder_draw_grid == Builder_draw("draw_grid", "ImGuizmo_DrawGrid")
Builder_draw_cube == Builder_draw("draw_cube", "ImGuizmo_DrawCubes")

---------------------------------------------------------------------------
(* Spec: frames, pointer input and the drag state.  The host draws and     *)
(* manipulates two models, on the Gizmo and on the Builder path.           *)

HostProjection == CHOOSE p \in HostProjections : TRUE

DragCalls ==
    \/ Gizmo_is_using
    \/ \E b \in BOOLEAN : Gizmo_enable(b)
    \/ \E m \in ModelIds :
          Gizmo_manipulate(HostProjection, "Rotate", "Local", m, NoOptions)
    \/ Gizmo_draw_cube(HostProjection, "cube")
    \/ Gizmo_draw_grid(HostProjection, "grid")
    \/ Gizmo_builder("grid")
    \/ Builder_with_mode("World")
    \/ Builder_manipulate
    \/ Builder_draw_grid
    \/ Builder_draw_cube

Next ==
    \/ HostNewFrame(PointerInputs({NoTarget} \union HandleTargets))
    \/ HostEndFrame
    \/ Gizmo_begin_frame
    \/ DragCalls

Spec == Init /\ [][Next]_vars

---------------------------------------------------------------------------
(* SpecApi: every operation of the public API that reaches the engine,     *)
(* with the view manipulator and the per-frame configuration.              *)

ApiTargets == {NoTarget, ViewCube}

ConfigCalls ==
    \/ Gizmo_set_draw_list
    \/ \E b \in BOOLEAN : Gizmo_set_orthographic(b)
    \/ Gizmo_set_rect(Rect_from_display(display))
    \/ Gizmo_view_manipulate
    \/ \E b \in BOOLEAN : SetOrtho(b)

ApiCalls ==
    \/ Gizmo_is_over
    \/ Gizmo_is_using
    \/ \E b \in BOOLEAN : Gizmo_enable(b)
    \/ Gizmo_manipulate(HostProjection, "Rotate", "Local", "cube", NoOptions)
    \/ Gizmo_draw_cube(HostProjection, "cube")
    \/ Gizmo_draw_grid(HostProjection, "grid")
    \/ Gizmo_builder("cube")
    \/ Builder_manipulate
    \/ Builder_draw_grid
    \/ Builder_draw_cube

NextApi ==
    \/ HostNewFrame(PointerInputs(ApiTargets))
    \/ HostEndFrame
    \/ Gizmo_begin_frame
    \/ ConfigCalls
    \/ ApiCalls

SpecApi == Init /\ [][NextApi]_vars


---------------------------------------------------------------------------
(* SpecOptions: the four optional parameters of manipulate, on the Gizmo   *)
(* path and through the Builder's setters, in frames without pointer       *)
(* activity.                                                               *)

OptionCalls ==
    \/ \E opts \in AllOptions, mode \in Mode :
          Gizmo_manipulate(HostProjection, "Rotate", mode, "cube", opts)
    \/ Gizmo_builder("cube")
    \/ \E o \in {None, Some("delta_matrix")} : Builder_with_delta_matrix(o)
    \/ \E o \in {None, Some("snap")} : Builder_with_snap(o)
    \/ \E o \in {None, Some("bounds")} : Builder_with_local_bounds(o)
    \/ \E o \in {None, Some("bounds_snap")} : Builder_with_bounds_snap(o)
    \/ Builder_manipulate

NextOptions ==
    \/ HostNewFrame(IdleInputs)
    \/ HostEndFrame
    \/ Gizmo_begin_frame
    \/ OptionCalls

SpecOptions == Init /\ [][NextOptions]_vars

---------------------------------------------------------------------------
(* SpecBuilder: the Builder's projection, operation, windowed and mode     *)
(* settings and the three calls that consume them.                         *)

ProjectionInputs == {Perspective(Whole(60)), Orthographic(Whole(10))}

BuilderCalls ==
    \/ \E m \in ModelIds : Gizmo_builder(m)
    \/ \E proj \in ProjectionInputs : Builder_with_projection(proj)
    \/ \E op \in Operation : Builder_with_operation(op)
    \/ \E w \in BOOLEAN : Builder_with_windowed(w)
    \/ \E mode \in Mode : Builder_with_mode(mode)
    \/ Builder_manipulate
    \/ Builder_draw_grid
    \/ Builder_draw_cube

NextBuilder ==
    \/ HostNewFrame(IdleInputs)
    \/ HostEndFrame
    \/ Gizmo_begin_frame
    \/ BuilderCalls

SpecBuilder == Init /\ [][NextBuilder]_vars

---------------------------------------------------------------------------
(* SpecMath: the projection helpers on bounded inputs.                     *)

FovyInputs == {Whole(30), Whole(45), Whole(60)}
AspectInputs == {Whole(1), Lit(133), Lit(177)}
NearInputs == {Lit(10), Whole(1)}
FarInputs == {Whole(100), Whole(1000)}
ExtentInputs == {Whole(1), Whole(10)}

MathInputs ==
    { [fn |-> "perspective", args |-> <<fovy, aspect, znear, zfar>>,
       out |-> None] :
        fovy \in FovyInputs, aspect \in AspectInputs,
        znear \in NearInputs, zfar \in FarInputs }
    \union
    { [fn |-> fn, args |-> <<FNeg(x), x, FNeg(y), y, znear, zfar>>,
       out |-> None] :
        fn \in {"frustum", "orthographic"}, x \in ExtentInputs,
        y \in ExtentInputs, znear \in NearInputs, zfar \in FarInputs }

InitMath == BaseInit /\ math \in MathInputs

MathDone(out) ==
    /\ math.out = None
    /\ math' = [math EXCEPT !.out = Some(out)]
    /\ UNCHANGED <<uiOpen, display, window, gizmo, begins, pointer, engine,
                   models, view, builder, lastCall>>

CallPerspective ==
    /\ math.fn = "perspective"
    /\ LET a == math.args
       IN  MathDone([ymax |-> perspectiveYmax(a[1], a[3]),
                     xmax |-> perspectiveXmax(a[1], a[2], a[3]),
                     m |-> perspective(a[1], a[2], a[3], a[4])])

CallFrustum ==
    /\ math.fn = "frustum"
    /\ LET a == math.args
       IN  MathDone([m |-> frustum(a[1], a[2], a[3], a[4], a[5], a[6])])

CallOrthographic ==
    /\ math.fn = "orthographic"
    /\ LET a == math.args
       IN  MathDone([m |-> orthographic(a[1], a[2], a[3], a[4], a[5], a[6])])

NextMath == CallPerspective \/ CallFrustum \/ CallOrthographic

SpecMath == InitMath /\ [][NextMath]_vars


---------------------------------------------------------------------------
(* SpecSetters: all eight setters of the Builder, chained in any order and *)
(* any number of times before the Builder is consumed.                     *)

SetterCalls ==
    \/ Gizmo_builder("cube")
    \/ \E proj \in ProjectionInputs : Builder_with_projection(proj)
    \/ \E op \in {"Rotate", "Scale"} : Builder_with_operation(op)
    \/ \E w \in BOOLEAN : Builder_with_windowed(w)
    \/ \E mode \in Mode : Builder_with_mode(mode)
    \/ \E o \in {None, Some("delta_matrix")} : Builder_with_delta_matrix(o)
    \/ \E o \in {None, Some("snap")} : Builder_with_snap(o)
    \/ \E o \in {None, Some("bounds")} : Builder_with_local_bounds(o)
    \/ \E o \in {None, Some("bounds_snap")} : Builder_with_bounds_snap(o)
    \/ Builder_manipulate

NextSetters ==
    \/ HostNewFrame(IdleInputs)
    \/ HostEndFrame
    \/ Gizmo_begin_frame
    \/ SetterCalls

SpecSetters == Init /\ [][NextSetters]_vars

---------------------------------------------------------------------------
(* SpecPrepare: prepare_projection on the viewports and Projection values  *)
(* a Builder can hand it.  The display size is whatever the windowing      *)
(* system reports, a minimised window's 0 x 0 included; fovy and           *)
(* view_width are any f32 the caller chose.                                *)

PrepareDisplays == {<<1280, 720>>, <<800, 600>>, <<0, 720>>, <<1280, 0>>,
                    <<0, 0>>}
PrepareWindows == WindowRects \union {[x |-> 0, y |-> 0, w |-> 300, h |-> 300]}
PrepareProjections ==
    {Perspective(Whole(0)), Perspective(Whole(45)), Perspective(Whole(60)),
     Orthographic(Whole(0)), Orthographic(Whole(10))}

PrepareInputs ==
    { [fn |-> "prepare_projection", args |-> <<windowed, proj, disp, win>>,
       out |-> None] :
        windowed \in BOOLEAN, proj \in PrepareProjections,
        disp \in PrepareDisplays, win \in PrepareWindows }

InitPrepare == BaseInit /\ math \in PrepareInputs

CallPrepare ==
    /\ math.fn = "prepare_projection"
    /\ LET a == math.args
           rect == prepare_rect(a[1], a[3], a[4])
       IN  MathDone([rect |-> rect,
                     extents |-> prepare_extents(a[2], rect),
                     m |-> prepare_projection(engine, a[1], a[2], a[3],
                                              a[4]).projection])

NextPrepare == CallPrepare

SpecPrepare == InitPrepare /\ [][NextPrepare]_vars

---------------------------------------------------------------------------
(* Claims.                                                                 *)

IsManipulate == lastCall.op = "manipulate"
OnBuilderPath == lastCall.given # None /\ lastCall.given[1].path = "Builder"
OnGizmoPath == lastCall.given # None /\ lastCall.given[1].path = "Gizmo"

\* C1: every manipulate call (Gizmo::manipulate, Builder::manipulate) hands
\* its caller a boolean that is true exactly when the model matrix was
\* modified during the call.
C1_ManipulateReturnsModified ==
    IsManipulate => lastCall.ret = BoolStr(lastCall.modified)

FrameScopedOps ==
    {"set_draw_list", "set_rect", "set_orthographic", "set_ortho", "enable",
     "is_over", "is_using", "manipulate", "view_manipulate", "draw_cube",
     "draw_grid"}

\* C2: begin_frame is called at most once in a frame, and every operation
\* on frame-scoped engine state is made with a Gizmo of the open frame.
C2_FrameScopedNeedsContext ==
    /\ begins <= 1
    /\ lastCall.op \in FrameScopedOps => lastCall.hadCtx

\* the documented defaults, field by field
HasDefaults(b) ==
    /\ b.projection = [kind |-> "Perspective", param |-> FIN(45 * Scale)]
    /\ b.operation = "Rotate"
    /\ b.mode = "Local"
    /\ b.windowed = FALSE
    /\ b.delta_matrix = <<>>
    /\ b.snap = <<>>
    /\ b.local_bounds = <<>>
    /\ b.bounds_snap = <<>>

DisplayRect ==
    [x |-> FIN(0), y |-> FIN(0), width |-> FIN(display[1] * Scale),
     height |-> FIN(display[2] * Scale)]
WindowRect ==
    [x |-> FIN(window.x * Scale), y |-> FIN(window.y * Scale),
     width |-> FIN(window.w * Scale), height |-> FIN(window.h * Scale)]

\* C3: a Builder fresh from Builder::new / Gizmo::builder holds Perspective
\* fovy 45, Rotate, Local, windowed = false and no optional parameter, and a
\* manipulate call on such a Builder hands the engine exactly these: ROTATE,
\* LOCAL, four null pointers, the display rect, the orthographic flag off
\* and the perspective matrix of fovy 45 for the display's aspect ratio.
C3_FreshBuilderDefaults ==
    /\ lastCall.op = "builder" => builder # None /\ HasDefaults(builder[1])
    /\ (IsManipulate /\ OnBuilderPath /\ HasDefaults(lastCall.given[1].b)) =>
          LET got == lastCall.got[1]
          IN  /\ got.operation = "ImGuizmo_OPERATION_ROTATE"
              /\ got.mode = "ImGuizmo_MODE_LOCAL"
              /\ got.ptrs = [deltaMatrix |-> "null", snap |-> "null",
                             localBounds |-> "null", boundsSnap |-> "null"]
              /\ got.rect = <<DisplayRect>>
              /\ got.ortho = FALSE
              /\ got.projection =
                    perspective(FIN(45 * Scale),
                                FDiv(DisplayRect.width, DisplayRect.height),
                                FIN(Scale \div 10), FIN(100 * Scale))

C3_Witness ==
    /\ IsManipulate /\ OnBuilderPath /\ HasDefaults(lastCall.given[1].b)
    /\ lastCall.given[1].b.model = "grid"

\* what the caller supplied for the four optional parameters
GivenOptions ==
    IF OnBuilderPath THEN BuilderOptions(lastCall.given[1].b)
    ELSE lastCall.given[1].opts

\* a pointer is the address of the value supplied, or null when none was
PassedAsGiven(opt, ptr) ==
    \/ opt = <<>> /\ ptr = "null"
    \/ opt # <<>> /\ ptr = opt[1] /\ ptr # "null"

\* C4: on both paths and for each of the four optional parameters on its
\* own, the engine receives the address of the caller's value when one was
\* supplied and null when none was.
C4_OptionalsPassedAsGiven ==
    IsManipulate =>
        LET ptrs == lastCall.got[1].ptrs
        IN  /\ PassedAsGiven(GivenOptions.delta_matrix, ptrs.deltaMatrix)
            /\ PassedAsGiven(GivenOptions.snap, ptrs.snap)
            /\ PassedAsGiven(GivenOptions.local_bounds, ptrs.localBounds)
            /\ PassedAsGiven(GivenOptions.bounds_snap, ptrs.boundsSnap)

C4_Witness ==
    /\ IsManipulate /\ OnBuilderPath
    /\ GivenOptions.delta_matrix = <<>>
    /\ GivenOptions.snap = <<"snap">>
    /\ GivenOptions.local_bounds = <<"bounds">>
    /\ GivenOptions.bounds_snap = <<>>
    /\ lastCall.got[1].ptrs.snap = "snap"
    /\ lastCall.got[1].ptrs.boundsSnap = "null"

\* C5: a Builder call takes the window's rect when windowed and the display
\* rect otherwise, sets exactly that rect as the engine viewport and derives
\* the projection matrix from that rect's width and height.
C5_RectAndProjectionFromViewport ==
    (lastCall.op \in {"manipulate", "draw_cube", "draw_grid"}
     /\ OnBuilderPath) =>
        LET b == lastCall.given[1].b
            got == lastCall.got[1]
            rect == IF b.windowed THEN WindowRect ELSE DisplayRect
            vw == b.projection.param
            vh == FDiv(FMul(vw, rect.height), rect.width)
        IN  /\ got.rect = <<rect>>
            /\ engine.rect = <<rect>>
            /\ b.projection.kind = "Perspective" =>
                  got.projection =
                      perspective(b.projection.param,
                                  FDiv(rect.width, rect.height),
                                  FIN(Scale \div 10), FIN(100 * Scale))
            /\ b.projection.kind = "Orthographic" =>
                  got.projection =
                      orthographic(FNeg(vw), vw, FNeg(vh), vh, FNeg(vw), vw)

C5_Witness ==
    /\ IsManipulate /\ OnBuilderPath
    /\ lastCall.given[1].b.windowed
    /\ lastCall.given[1].b.projection.kind = "Orthographic"
    /\ engine.rect = <<WindowRect>>
    /\ WindowRect # DisplayRect

\* fovy / 2, converted from degrees to radians
HalfFovyRadians(fovy_degrees) ==
    FDiv(FMul(FDiv(fovy_degrees, FIN(2 * Scale)), FIN(PI)), FIN(180 * Scale))

\* C6: perspective takes ymax = znear * tan(fovy / 2), the angle in
\* radians, xmax = ymax * aspect_ratio, and returns
\* frustum(-xmax, xmax, -ymax, ymax, znear, zfar).
C6_PerspectiveHalfAngle ==
    (math.fn = "perspective" /\ math.out # None) =>
        LET a == math.args
            o == math.out[1]
            ymax == FMul(a[3], Tan(HalfFovyRadians(a[1])))
            xmax == FMul(ymax, a[2])
        IN  /\ o.ymax = ymax
            /\ o.xmax = xmax
            /\ o.m = frustum(FNeg(xmax), xmax, FNeg(ymax), ymax, a[3], a[4])


\* the model a manipulate call was made for
CallModel ==
    IF OnBuilderPath THEN lastCall.given[1].b.model
    ELSE lastCall.given[1].model

\* C7: the enabled flag changes only in an enable call, which sets it to its
\* argument, so it keeps that value through every other operation, the
\* begin_frame of later frames included; and in a step that starts with the
\* flag off no handle is captured and no model matrix changes.
C7_EnableSticky ==
    [][ /\ engine'.enabled # engine.enabled => lastCall'.op = "enable"
        /\ lastCall'.op = "enable" =>
              engine'.enabled = lastCall'.given[1].enabled
        /\ ~engine.enabled =>
              /\ engine'.capture \subseteq engine.capture
              /\ models' = models ]_vars

C7_Witness ==
    /\ ~engine.enabled
    /\ IsManipulate
    /\ pointer.pressed
    /\ pointer.over = <<CallModel, "axisX">>
    /\ ~lastCall.got[1].captured
    /\ engine.capture = {}

C9_IdleManipulateIsNoop ==
    (IsManipulate /\ ~pointer.pressed /\ ~pointer.moved
     /\ ~lastCall.got[1].captured) =>
        /\ ~lastCall.modified
        /\ lastCall.ret = "false"

\* C10: draw_cube and draw_grid, on either path, leave the model and view
\* matrices and the drag state as they were, and the Builder variants hand
\* back the Builder with every field unchanged.
C10_DrawsLeaveStateAlone ==
    [][ lastCall'.op \in {"draw_cube", "draw_grid"} =>
          /\ models' = models
          /\ view' = view
          /\ engine'.capture = engine.capture
          /\ engine'.viewDrag = engine.viewDrag
          /\ lastCall'.given # <<>> =>
                /\ builder' = builder
                /\ builder' = <<lastCall'.given[1].b>> ]_vars

C10_Witness ==
    /\ lastCall.op = "draw_grid"
    /\ OnBuilderPath
    /\ builder # <<>>
    /\ builder[1].mode = "World"
    /\ engine.capture # {}
    /\ pointer.down
    /\ pointer.moved


\* the frame-scoped configuration of the engine
ConfigOf(e) == [ortho |-> e.ortho, rect |-> e.rect, drawList |-> e.drawList]

\* the operations that write the frame-scoped configuration
ConfigWriters ==
    {"begin_frame", "set_draw_list", "set_rect", "set_orthographic",
     "set_ortho"}

\* C11: begin_frame puts the orthographic flag, the viewport rect and the
\* draw-list target back to their defaults and keeps the drag state and the
\* enabled flag; a manipulate or draw call on the Gizmo path consumes the
\* configuration as it stands, and no call other than a setter or a Builder
\* call writes it: so what an earlier frame set never reaches a call of a
\* later frame that does not set it again.
C11_OnlyDragAndEnabledCarryOver ==
    [][ /\ lastCall'.op = "begin_frame" =>
              /\ ConfigOf(engine') = ConfigOf(EngineInit)
              /\ engine'.capture = engine.capture
              /\ engine'.viewDrag = engine.viewDrag
              /\ engine'.enabled = engine.enabled
        /\ (lastCall'.op \in {"manipulate", "draw_cube", "draw_grid"}
            /\ (lastCall'.given = <<>> \/ lastCall'.given[1].path = "Gizmo")) =>
              /\ lastCall'.got[1].ortho = engine.ortho
              /\ lastCall'.got[1].rect = engine.rect
              /\ lastCall'.got[1].drawList = engine.drawList
              /\ ConfigOf(engine') = ConfigOf(engine)
        /\ (lastCall'.op \notin ConfigWriters
            /\ (lastCall'.given = <<>> \/ lastCall'.op = "enable"
                \/ lastCall'.given[1].path = "Gizmo")) =>
              ConfigOf(engine') = ConfigOf(engine) ]_vars

\* a Gizmo::manipulate of a later frame (the button is held since an earlier
\* one, the gizmo was disabled and stays so) that meets the defaults
C11_Witness ==
    /\ IsManipulate
    /\ OnGizmoPath
    /\ begins = 1
    /\ pointer.down /\ ~pointer.pressed
    /\ ~engine.enabled
    /\ lastCall.got[1].ortho = FALSE
    /\ lastCall.got[1].rect = <<>>
    /\ lastCall.got[1].drawList = "overlay"


\* a Builder call that reached the engine
IsBuilderCall ==
    /\ lastCall.op \in {"manipulate", "draw_cube", "draw_grid"}
    /\ OnBuilderPath

\* C12: the draw list a Builder call draws into is the window's when the
\* Builder's windowed flag is true and the full-screen overlay otherwise,
\* whatever was called earlier in the frame.
C12_DrawListFollowsWindowed ==
    IsBuilderCall =>
        lastCall.got[1].drawList =
            (IF lastCall.given[1].b.windowed THEN "window" ELSE "overlay")


\* C13: in every Builder call (manipulate, draw_cube, draw_grid) the engine
\* operation consumes the orthographic flag of that Builder's projection and
\* the rect chosen for that Builder, whatever flag and rect the engine held
\* when the call began, and the engine holds them after the call.
C13_FlagAndRectOfSameBuilder ==
    [][ (lastCall'.op \in {"manipulate", "draw_cube", "draw_grid"}
         /\ lastCall'.given # <<>>
         /\ lastCall'.given[1].path = "Builder") =>
           LET b == lastCall'.given[1].b
               got == lastCall'.got[1]
               chosen == IF b.windowed THEN Rect_from_window(window)
                         ELSE Rect_from_display(display)
           IN  /\ builder = <<b>>
               /\ got.ortho = is_orthographic(b.projection)
               /\ got.rect = <<chosen>>
               /\ engine'.ortho = got.ortho
               /\ engine'.rect = got.rect ]_vars

\* a draw call of a Builder with an orthographic projection, not windowed
C13_Witness ==
    /\ lastCall.op = "draw_cube"
    /\ OnBuilderPath
    /\ lastCall.given[1].b.projection.kind = "Orthographic"
    /\ ~lastCall.given[1].b.windowed
    /\ lastCall.got[1].ortho
    /\ engine.ortho
    /\ engine.rect = <<DisplayRect>>


\* C14: whatever viewport rect and Projection prepare_projection receives,
\* the extents it hands to frustum or orthographic are all finite, with
\* right # left, top # bottom and zfar # znear.
C14_ExtentsNonDegenerate ==
    (math.fn = "prepare_projection" /\ math.out # <<>>) =>
        LET x == math.out[1].extents
        IN  /\ \A f \in DOMAIN x : IsFinite(x[f])
            /\ x.right # x.left
            /\ x.top # x.bottom
            /\ x.zfar # x.znear


\* the fields a setter writes, and a setter by the name of its field
SetterFields ==
    {"projection", "operation", "windowed", "mode", "delta_matrix", "snap",
     "local_bounds", "bounds_snap"}

SetterOf(f, b, v) ==
    CASE f = "projection" -> with_projection(b, v)
      [] f = "operation" -> with_operation(b, v)
      [] f = "windowed" -> with_windowed(b, v)
      [] f = "mode" -> with_mode(b, v)
      [] f = "delta_matrix" -> with_delta_matrix(b, v)
      [] f = "snap" -> with_snap(b, v)
      [] f = "local_bounds" -> with_local_bounds(b, v)
      [] f = "bounds_snap" -> with_bounds_snap(b, v)

\* values to try each setter with
SetterValues(f) ==
    CASE f = "projection" -> ProjectionInputs
      [] f = "operation" -> Operation
      [] f = "windowed" -> BOOLEAN
      [] f = "mode" -> Mode
      [] OTHER -> {<<>>, <<f>>}

\* C15: on every Builder a chain of setters can produce, each setter writes
\* its own field and leaves every other field and the model reference as
\* they were, two setters of different fields give the same Builder in
\* either order, and of two calls of one setter the later value stays; a
\* setter call changes neither the view nor any model matrix nor the engine.
C15_SettersIndependent ==
    /\ [](builder # <<>> =>
            \A f \in SetterFields : \A v \in SetterValues(f) :
               LET b == builder[1]
                   b1 == SetterOf(f, b, v)
               IN  /\ b1[f] = v
                   /\ \A g \in DOMAIN b \ {f} : b1[g] = b[g]
                   /\ DOMAIN b1 = DOMAIN b
                   /\ \A w \in SetterValues(f) :
                         SetterOf(f, b1, w) = SetterOf(f, b, w)
                   /\ \A g \in SetterFields \ {f} : \A w \in SetterValues(g) :
                         SetterOf(g, b1, w) = SetterOf(f, SetterOf(g, b, w), v))
    /\ [][ lastCall'.op = "with" =>
              /\ models' = models
              /\ view' = view
              /\ engine' = engine
              /\ builder # <<>> /\ builder' # <<>>
              /\ builder'[1].model = builder[1].model
              /\ Cardinality({f \in SetterFields :
                                 builder'[1][f] # builder[1][f]}) <= 1 ]_vars

\* a Builder on which setters of both groups were chained
C15_Witness ==
    /\ lastCall.op = "with"
    /\ builder # <<>>
    /\ builder[1].projection.kind = "Orthographic"
    /\ builder[1].operation = "Scale"
    /\ builder[1].windowed
    /\ builder[1].mode = "World"
    /\ builder[1].delta_matrix = <<>>
    /\ builder[1].snap = <<"snap">>
    /\ builder[1].local_bounds = <<"bounds">>
    /\ builder[1].bounds_snap = <<>>


===========================================================================
